---- MODULE Spec2Model ----
(***************************************************************************)
(* A model of update_stars.py: the paginated fetch of a user's             *)
(* repositories, the star/fork reduction, and the chain of strategies that *)
(* writes the total into README.md.                                        *)
(*                                                                         *)
(* A document is a sequence of lexical units.  A unit is a piece of text   *)
(* that the script's regular expressions treat as a whole: one of the two  *)
(* marker literals, one word of the label or of the heading, a blank, a    *)
(* line break, or any other run of non-blank characters.                   *)
(***************************************************************************)
EXTENDS Integers, Sequences, FiniteSets, TLC

VARIABLES
    pc,         \* where the process is
    token,      \* whether GITHUB_TOKEN is set
    server,     \* what the API answers: [user, pages]
    page,       \* fetch_all_repos: page
    repos,      \* fetch_all_repos: repos
    requests,   \* the pages requested so far, in order
    total,      \* the total handed to update_readme_robust
    readme,     \* README.md: [exists, content]
    text,       \* update_readme_robust: text, as read
    method,     \* the strategy whose message was printed
    writes,     \* how many times README.md was written in this run
    exit_code,  \* the process's exit code, -1 while it runs
    history     \* the finished runs on this document: [total, text, method, result]

vars == <<pc, token, server, page, repos, requests, total, readme, text,
          method, writes, exit_code, history>>

----------------------------------------------------------------------------
(* Lexical units *)

START == "<!--START_TOTAL_SCORE-->"
END == "<!--END_TOTAL_SCORE-->"
SP == " "
NL == "\n"
TOTAL_WORD == "Total"
STARS_WORD == "Stars"
FORKS_WORD == "Forks"
COLON == ":"
HASHES == "###"
STAR_EMOJI == "(star)"
GITHUB_WORD == "Github"
STATUS_WORD == "Status:"
Joiners == {"+", "&", "and"}

\* \s
IsSpace(u) == u \in {SP, NL}

\* F applied to the value of x.  (A LET definition is evaluated where it is
\* used, and inside ENABLED at each use; a bound variable is evaluated once.)
With(x, F(_)) == CHOOSE r \in {F(v) : v \in {x}} : TRUE

Min(S) == With(S, LAMBDA V : CHOOSE x \in V : \A y \in V : x <= y)
Max(S) == With(S, LAMBDA V : CHOOSE x \in V : \A y \in V : x >= y)

\* str(total)
Str(n) == ToString(n)

\* The position after a greedy \s* that starts at i: the first position from
\* i on that holds no blank, or the end.
SkipSpace(t, i) ==
    Min({j \in i..(Len(t) + 1) : j = Len(t) + 1 \/ ~IsSpace(t[j])})

\* The last position of a greedy \S+ that starts at i.
RunEnd(t, i) ==
    Min({j \in i..Len(t) : j = Len(t) \/ IsSpace(t[j + 1])})

\* The last position of a greedy .* that starts at i (i - 1 when it is empty).
LineEnd(t, i) ==
    Min({j \in (i - 1)..Len(t) : j = Len(t) \/ t[j + 1] = NL})

\* Where ^ matches under re.MULTILINE.
LineStarts(t) == {1} \cup {i + 1 : i \in {k \in 1..Len(t) : t[k] = NL}}

----------------------------------------------------------------------------
(* replace_placeholder *)

\* The starts of a match of (START)(.*?)(END) under re.S.
PlaceholderStarts(t) ==
    {i \in 1..Len(t) : t[i] = START /\ \E j \in (i + 1)..Len(t) : t[j] = END}

\* Mutant: the old content is kept behind the total.
replace_placeholder_keep(t, n) ==
    IF PlaceholderStarts(t) # {}
    THEN LET i == Min(PlaceholderStarts(t))
         IN  [new_text |-> SubSeq(t, 1, i) \o <<Str(n)>>
                              \o SubSeq(t, i + 1, Len(t)),
              done |-> TRUE]
    ELSE [new_text |-> t, done |-> FALSE]

\* Mutant: the sub-pattern is greedy, (.*) for (.*?).
replace_placeholder_greedy(t, n) ==
    IF PlaceholderStarts(t) # {}
    THEN With(Min(PlaceholderStarts(t)), LAMBDA i :
         With(Max({k \in (i + 1)..Len(t) : t[k] = END}), LAMBDA j :
         [new_text |-> SubSeq(t, 1, i) \o <<Str(n)>> \o SubSeq(t, j, Len(t)),
          done |-> TRUE]))
    ELSE [new_text |-> t, done |-> FALSE]

replace_placeholder(t, n) ==
    IF PlaceholderStarts(t) # {}
    THEN With(Min(PlaceholderStarts(t)), LAMBDA i :
         With(Min({k \in (i + 1)..Len(t) : t[k] = END}), LAMBDA j :
         [new_text |-> SubSeq(t, 1, i) \o <<Str(n)>> \o SubSeq(t, j, Len(t)),
          done |-> TRUE]))
    ELSE [new_text |-> t, done |-> FALSE]

----------------------------------------------------------------------------
(* replace_common_line *)

\* (?:\s*(?:\+|&|and)?\s*Forks) from position i: the position after it, 0 if
\* it does not match.
ForksPart(t, i) ==
    With(SkipSpace(t, i), LAMBDA a :
    With(IF a <= Len(t) /\ t[a] \in Joiners THEN SkipSpace(t, a + 1) ELSE a,
         LAMBDA b :
    IF b <= Len(t) /\ t[b] = FORKS_WORD THEN b + 1 ELSE 0))

\* \s*[:]\s*(\S+) from position i: where group 2 starts, 0 if it does not match.
ColonPart(t, i) ==
    With(SkipSpace(t, i), LAMBDA d :
    IF d <= Len(t) /\ t[d] = COLON
    THEN With(SkipSpace(t, d + 1), LAMBDA e : IF e <= Len(t) THEN e ELSE 0)
    ELSE 0)

\* Total\s+Stars(?:...Forks)?\s*[:]\s*(\S+) from position q: where group 2
\* starts, 0 if it does not match.  The optional group is tried first.
LabelAt(t, q) ==
    IF q + 1 <= Len(t) /\ t[q] = TOTAL_WORD /\ IsSpace(t[q + 1])
    THEN With(SkipSpace(t, q + 1), LAMBDA a :
         IF a <= Len(t) /\ t[a] = STARS_WORD
         THEN With(ForksPart(t, a + 1), LAMBDA f :
              With(IF f # 0 THEN ColonPart(t, f) ELSE 0, LAMBDA g :
              IF g # 0 THEN g ELSE ColonPart(t, a + 1)))
         ELSE 0)
    ELSE 0

\* The label positions the greedy prefix ([ \t>*-]*.*) can reach from line
\* start p and from which the rest of the pattern matches.
LabelsOnLine(t, p) ==
    {q \in p..Len(t) : (\A k \in p..(q - 1) : t[k] # NL) /\ LabelAt(t, q) # 0}

CommonLineStarts(t) == {p \in LineStarts(t) : LabelsOnLine(t, p) # {}}

replace_common_line(t, n) ==
    IF CommonLineStarts(t) # {}
    THEN With(Min(CommonLineStarts(t)), LAMBDA p :
         With(Max(LabelsOnLine(t, p)), LAMBDA q :
         With(LabelAt(t, q), LAMBDA g :
         [new_text |-> SubSeq(t, 1, g - 1) \o <<Str(n)>>
                          \o SubSeq(t, RunEnd(t, g) + 1, Len(t)),
          done |-> TRUE])))
    ELSE [new_text |-> t, done |-> FALSE]

----------------------------------------------------------------------------
(* insert_under_status_heading, append_to_end *)

\* Mutant: the line is built without its markers.
StatsLine_NoMarkers(n) ==
    <<">", SP, "(glowing star)", SP, "**", TOTAL_WORD, SP, STARS_WORD, SP, "+",
      SP, FORKS_WORD, COLON, "**", SP, Str(n)>>

\* "> (glowing star) **Total Stars + Forks:** <!--START-->{total}<!--END-->"
StatsLine(n) ==
    <<">", SP, "(glowing star)", SP, "**", TOTAL_WORD, SP, STARS_WORD, SP, "+",
      SP, FORKS_WORD, COLON, "**", SP, START, Str(n), END>>

insert_line(n) == <<NL>> \o StatsLine(n) \o <<NL>>

append_line(n) == <<NL, "---", NL>> \o StatsLine(n) \o <<NL>>

\* ###\s*(star)\s*Github Status: from position p: the position of its last
\* unit, 0 if it does not match.  The blank in "Github Status:" is a literal
\* one.
HeadingAt(t, p) ==
    IF p <= Len(t) /\ t[p] = HASHES
    THEN With(SkipSpace(t, p + 1), LAMBDA a :
         IF a <= Len(t) /\ t[a] = STAR_EMOJI
         THEN With(SkipSpace(t, a + 1), LAMBDA b :
              IF /\ b + 2 <= Len(t)
                 /\ t[b] = GITHUB_WORD
                 /\ t[b + 1] = SP
                 /\ t[b + 2] = STATUS_WORD
              THEN b + 2
              ELSE 0)
         ELSE 0)
    ELSE 0

HeadingStarts(t) == {p \in LineStarts(t) : HeadingAt(t, p) # 0}

\* Mutant: the line is inserted where "Github Status:" ends, not where its
\* line ends.
insert_under_status_heading_early(t, n) ==
    IF HeadingStarts(t) # {}
    THEN LET p == Min(HeadingStarts(t))
             idx == HeadingAt(t, p)
         IN  [new_text |-> SubSeq(t, 1, idx) \o insert_line(n)
                              \o SubSeq(t, idx + 1, Len(t)),
              done |-> TRUE]
    ELSE [new_text |-> t, done |-> FALSE]

insert_under_status_heading(t, n) ==
    IF HeadingStarts(t) # {}
    THEN With(Min(HeadingStarts(t)), LAMBDA p :
         With(LineEnd(t, HeadingAt(t, p) + 1), LAMBDA idx :
         [new_text |-> SubSeq(t, 1, idx) \o insert_line(n)
                          \o SubSeq(t, idx + 1, Len(t)),
          done |-> TRUE]))
    ELSE [new_text |-> t, done |-> FALSE]

\* Mutant: the block replaces the text.
append_to_end_alone(t, n) == [new_text |-> append_line(n), done |-> TRUE]

append_to_end(t, n) == [new_text |-> t \o append_line(n), done |-> TRUE]

----------------------------------------------------------------------------
(* The API and the reduction *)

per_page == 100

JNull == <<"null">>
JInt(n) == <<"int", n>>
JStr(x) == <<"str", x>>

\* r.get(key, 0)
Get(r, key) == IF key \in DOMAIN r THEN r[key] ELSE JInt(0)

\* v or 0: None, 0 and "" are falsy.
OrZero(v) ==
    IF \/ v[1] = "null"
       \/ (v[1] = "int" /\ v[2] = 0)
       \/ (v[1] = "str" /\ v[2] = "")
    THEN JInt(0)
    ELSE v

\* Whether int(v) raises: a string that is no number.
IntRaises(v) == v[1] = "str"

\* int(v), for a v on which it does not raise.
IntOf(v) == v[2]

Field(r, key) == IntOf(OrZero(Get(r, key)))

\* sum(int(r.get(key, 0) or 0) for r in rs[lo..hi]).  The sum is split in
\* halves, which for integers is the sum from left to right, so that a list
\* of several pages does not nest a hundred levels deep.
RECURSIVE SumRange(_, _, _, _)
SumRange(rs, key, lo, hi) ==
    IF lo > hi THEN 0
    ELSE IF lo = hi THEN Field(rs[lo], key)
    ELSE LET mid == (lo + hi) \div 2
         IN  SumRange(rs, key, lo, mid) + SumRange(rs, key, mid + 1, hi)

SumField(rs, key) == SumRange(rs, key, 1, Len(rs))

ScoreRaises(rs) ==
    \E i \in 1..Len(rs) :
        \/ IntRaises(OrZero(Get(rs[i], "stargazers_count")))
        \/ IntRaises(OrZero(Get(rs[i], "forks_count")))

\* Mutant: the forks are left out of the total.
calculate_total_score_stars(rs) ==
    LET total_stars == SumField(rs, "stargazers_count")
        total_forks == SumField(rs, "forks_count")
    IN  [total |-> total_stars,
         total_stars |-> total_stars,
         total_forks |-> total_forks]

calculate_total_score(rs) ==
    LET total_stars == SumField(rs, "stargazers_count")
        total_forks == SumField(rs, "forks_count")
    IN  [total |-> total_stars + total_forks,
         total_stars |-> total_stars,
         total_forks |-> total_forks]

\* The body of the response to the request for page p.  Past the last page
\* the API answers an empty list.
ServerPage(p) ==
    IF p <= Len(server.pages) THEN server.pages[p]
    ELSE [kind |-> "list", records |-> <<>>]

----------------------------------------------------------------------------
(* The process: the module's top level, main and what it calls *)

\* Lines 19-22: without GITHUB_TOKEN the script exits before any request.
CheckToken ==
    /\ pc = "start"
    /\ IF token
       THEN pc' = "get_user" /\ exit_code' = exit_code
       ELSE pc' = "exit" /\ exit_code' = 1
    /\ UNCHANGED <<token, server, page, repos, requests, total, readme, text,
                   method, writes, history>>

\* get_authenticated_user, and main's handlers for what it raises.
GetAuthenticatedUser ==
    /\ pc = "get_user"
    /\ IF server.user = "ok"
       THEN pc' = "fetch" /\ exit_code' = exit_code
       ELSE pc' = "exit" /\ exit_code' = 1
    /\ page' = 1
    /\ repos' = <<>>
    /\ UNCHANGED <<token, server, requests, total, readme, text, method,
                   writes, history>>

\* Mutant: the loop ends on len(data) <= per_page.
FetchPage_le ==
    /\ pc = "fetch"
    /\ requests' = Append(requests, page)
    /\ LET data == ServerPage(page)
       IN  IF data.kind # "list"
           THEN /\ pc' = "exit"
                /\ exit_code' = 1
                /\ UNCHANGED <<page, repos>>
           ELSE /\ repos' = repos \o data.records
                /\ exit_code' = exit_code
                /\ IF Len(data.records) <= per_page
                   THEN pc' = "calculate" /\ page' = page
                   ELSE pc' = "fetch" /\ page' = page + 1
    /\ UNCHANGED <<token, server, total, readme, text, method, writes,
                   history>>

\* Mutant: a body that is no list ends the loop as an empty page does.
FetchPage_swallow ==
    /\ pc = "fetch"
    /\ requests' = Append(requests, page)
    /\ LET data == ServerPage(page)
       IN  IF data.kind # "list"
           THEN /\ pc' = "calculate"
                /\ exit_code' = exit_code
                /\ UNCHANGED <<page, repos>>
           ELSE /\ repos' = repos \o data.records
                /\ exit_code' = exit_code
                /\ IF Len(data.records) < per_page
                   THEN pc' = "calculate" /\ page' = page
                   ELSE pc' = "fetch" /\ page' = page + 1
    /\ UNCHANGED <<token, server, total, readme, text, method, writes,
                   history>>

\* One iteration of fetch_all_repos's loop.
FetchPage ==
    /\ pc = "fetch"
    /\ requests' = Append(requests, page)
    /\ LET data == ServerPage(page)
       IN  IF data.kind # "list"
           THEN \* raise_for_status, or the isinstance check, raises
                /\ pc' = "exit"
                /\ exit_code' = 1
                /\ UNCHANGED <<page, repos>>
           ELSE /\ repos' = repos \o data.records
                /\ exit_code' = exit_code
                /\ IF Len(data.records) < per_page
                   THEN pc' = "calculate" /\ page' = page
                   ELSE pc' = "fetch" /\ page' = page + 1
    /\ UNCHANGED <<token, server, total, readme, text, method, writes,
                   history>>

CalculateTotalScore ==
    /\ pc = "calculate"
    /\ IF ScoreRaises(repos)
       THEN pc' = "exit" /\ exit_code' = 1 /\ total' = total
       ELSE /\ pc' = "update_readme"
            /\ exit_code' = exit_code
            /\ total' = calculate_total_score(repos).total
    /\ UNCHANGED <<token, server, page, repos, requests, readme, text,
                   method, writes, history>>

\* update_readme_robust, lines 119-124: the existence check and the read.
ReadReadme ==
    /\ pc = "update_readme"
    /\ IF readme.exists
       THEN pc' = "try_placeholder" /\ text' = readme.content
                /\ exit_code' = exit_code
       ELSE pc' = "exit" /\ exit_code' = 1 /\ text' = text
    /\ UNCHANGED <<token, server, page, repos, requests, total, readme,
                   method, writes, history>>

\* open(readme_path, "w"), f.write(new_text), the message, and the return.
WriteReadme(new_text, m) ==
    /\ readme' = [exists |-> TRUE, content |-> new_text]
    /\ writes' = writes + 1
    /\ method' = m
    /\ history' = Append(history, [total |-> total, text |-> text,
                                   method |-> m, result |-> new_text])
    /\ pc' = "returned"

\* Mutant: the return after the write is missing.
WriteOrGoOn_NoReturn(r, m, next) ==
    /\ IF r.done
       THEN /\ readme' = [exists |-> TRUE, content |-> r.new_text]
            /\ writes' = writes + 1
            /\ method' = m
            /\ history' = Append(history, [total |-> total, text |-> text,
                                           method |-> m, result |-> r.new_text])
       ELSE UNCHANGED <<readme, writes, method, history>>
    /\ pc' = next
    /\ UNCHANGED <<token, server, page, repos, requests, total, text,
                   exit_code>>

\* What follows a strategy: write and return if it is done, go on to the next
\* strategy if not.
WriteOrGoOn(r, m, next) ==
    /\ IF r.done
       THEN WriteReadme(r.new_text, m)
       ELSE pc' = next /\ UNCHANGED <<readme, writes, method, history>>
    /\ UNCHANGED <<token, server, page, repos, requests, total, text,
                   exit_code>>

TryPlaceholder ==
    /\ pc = "try_placeholder"
    /\ WriteOrGoOn(replace_placeholder(text, total), "marker",
                   "try_common_line")

TryCommonLine ==
    /\ pc = "try_common_line"
    /\ WriteOrGoOn(replace_common_line(text, total), "line", "try_heading")

TryHeading ==
    /\ pc = "try_heading"
    /\ WriteOrGoOn(insert_under_status_heading(text, total), "heading",
                   "append")

\* Lines 150-154: the result of append_to_end is written whatever its flag.
AppendToEnd ==
    /\ pc = "append"
    /\ WriteReadme(append_to_end(text, total).new_text, "append")
    /\ UNCHANGED <<token, server, page, repos, requests, total, text,
                   exit_code>>

\* main, line 169, and the normal end of the process.
Finish ==
    /\ pc = "returned"
    /\ pc' = "exit"
    /\ exit_code' = 0
    /\ UNCHANGED <<token, server, page, repos, requests, total, readme, text,
                   method, writes, history>>

----------------------------------------------------------------------------
(* Bounds and inputs *)

MaxChunks == 4      \* pieces of a document, for one run of the patcher
MaxRunChunks == 3   \* pieces of a document, for repeated runs
MaxRuns == 2        \* runs of the script on one document
MaxRepos == 3       \* records handed to calculate_total_score
MaxPages == 2       \* pages the API holds

Totals == {7, 99}

HeadingLine == <<HASHES, SP, STAR_EMOJI, SP, GITHUB_WORD, SP, STATUS_WORD>>

\* The pieces documents are put together from.
Chunks ==
    { <<START>>, <<END>>, <<TOTAL_WORD, SP, STARS_WORD>>,
      <<SP, "+", SP, FORKS_WORD>>, <<COLON>>, <<SP>>, <<NL>>, <<"42">>,
      HeadingLine }

RECURSIVE Docs(_)
Docs(n) ==
    IF n = 0 THEN {<<>>}
    ELSE LET D == Docs(n - 1) IN D \cup {d \o c : d \in D, c \in Chunks}

\* "> (glowing star) **Total Stars + Forks:** 42 (updated daily)"
ExampleLine ==
    <<">", SP, "(glowing star)", SP, "**", TOTAL_WORD, SP, STARS_WORD, SP, "+",
      SP, FORKS_WORD, COLON, "**", SP, "42", SP, "(updated", SP, "daily)">>

\* Documents the pieces do not give: the label broken over lines, a second
\* label on the line, the other joiners, a glued or broken heading.
ExtraDocs ==
    { ExampleLine,
      <<"#", SP, "Hi", NL>> \o ExampleLine \o <<NL, "bye", NL>>,
      <<TOTAL_WORD, NL, STARS_WORD, NL, COLON, NL, NL, "42", SP, "x", NL>>,
      <<TOTAL_WORD, SP, STARS_WORD, COLON, SP, TOTAL_WORD, SP, STARS_WORD,
        COLON>>,
      <<TOTAL_WORD, SP, STARS_WORD, COLON, SP, "1", SP, TOTAL_WORD, SP,
        STARS_WORD, COLON, SP, "2">>,
      <<"*", SP, TOTAL_WORD, SP, STARS_WORD, SP, "&", SP, FORKS_WORD, COLON,
        SP, "42", NL, "-", SP, TOTAL_WORD, SP, STARS_WORD, SP, "and", SP,
        FORKS_WORD, SP, COLON, SP, "5">>,
      <<TOTAL_WORD, SP, STARS_WORD, SP, "+", SP, COLON, SP, "42">>,
      <<TOTAL_WORD, SP, STARS_WORD, FORKS_WORD, SP, "x", COLON, SP, "42">>,
      <<HASHES, STAR_EMOJI, GITHUB_WORD, SP, STATUS_WORD, SP, "x", NL, "y", NL>>,
      <<"a", NL, HASHES, NL, STAR_EMOJI, NL, GITHUB_WORD, SP, STATUS_WORD, NL, "b">>,
      <<HASHES, SP, STAR_EMOJI, SP, GITHUB_WORD, NL, STATUS_WORD, NL>>,
      <<TOTAL_WORD, SP, STARS_WORD, COLON>> \o HeadingLine,
      <<"a", SP>> \o HeadingLine \o <<NL>>,
      HeadingLine \o <<NL>> \o HeadingLine \o <<NL>>,
      <<START, "1", END, SP, START, "2", END, NL, TOTAL_WORD, SP, STARS_WORD,
        COLON, SP, "3", NL>> \o HeadingLine }

\* A record with the given fields; an "absent" field is left out.
RecordOf(s, f) ==
    [k \in (IF s[1] = "absent" THEN {} ELSE {"stargazers_count"})
           \cup (IF f[1] = "absent" THEN {} ELSE {"forks_count"})
       |-> IF k = "stargazers_count" THEN s ELSE f]

\* An API that holds one repository, with n stars.
OneRepo(n) ==
    [user |-> "ok",
     pages |-> << [kind |-> "list",
                   records |-> << RecordOf(JInt(n), JInt(0)) >>] >>]

----------------------------------------------------------------------------
(* One run of update_readme_robust, on every document of the bound *)

InitPatch ==
    /\ pc = "update_readme"
    /\ token = TRUE
    /\ total \in Totals
    /\ server = OneRepo(total)
    /\ page = 1
    /\ repos = server.pages[1].records
    /\ requests = <<1>>
    /\ \E d \in Docs(MaxChunks) \cup ExtraDocs :
           readme = [exists |-> TRUE, content |-> d]
    /\ text = <<>>
    /\ method = "none"
    /\ writes = 0
    /\ exit_code = -1
    /\ history = <<>>

NextPatch ==
    \/ ReadReadme
    \/ TryPlaceholder
    \/ TryCommonLine
    \/ TryHeading
    \/ AppendToEnd

SpecPatch == InitPatch /\ [][NextPatch]_vars

\* The process is sequential and nothing but the end of the chain stops it.
SpecPatchFair ==
    /\ SpecPatch
    /\ WF_vars(ReadReadme)
    /\ WF_vars(TryPlaceholder)
    /\ WF_vars(TryCommonLine)
    /\ WF_vars(TryHeading)
    /\ WF_vars(AppendToEnd)

----------------------------------------------------------------------------
(* calculate_total_score, on every list of records of the bound *)

FieldOptions == {<<"absent">>, JNull, JInt(0), JInt(2), JStr("x")}

Records == {RecordOf(s, f) : s \in FieldOptions, f \in FieldOptions}

RECURSIVE RecordLists(_)
RecordLists(n) ==
    IF n = 0 THEN {<<>>}
    ELSE LET L == RecordLists(n - 1)
         IN  L \cup {Append(l, r) : l \in L, r \in Records}

InitScore ==
    /\ pc = "calculate"
    /\ token = TRUE
    /\ repos \in RecordLists(MaxRepos)
    /\ server = [user |-> "ok",
                 pages |-> << [kind |-> "list", records |-> repos] >>]
    /\ page = 1
    /\ requests = <<1>>
    /\ total = 0
    /\ readme = [exists |-> TRUE, content |-> <<>>]
    /\ text = <<>>
    /\ method = "none"
    /\ writes = 0
    /\ exit_code = -1
    /\ history = <<>>

NextScore == CalculateTotalScore

SpecScore == InitScore /\ [][NextScore]_vars

----------------------------------------------------------------------------
(* The whole process, on every API and document of the bound *)

\* n records of page p, each with the given fields and a name of its own.
PageRecords(p, n, s, f) ==
    [i \in 1..n |-> RecordOf(s, f) @@ ("name" :> <<p, i>>)]

PageKinds == {"full", "short", "empty", "malformed", "object", "http_error"}

PageBody(p, k) ==
    CASE k = "full" -> [kind |-> "list",
                        records |-> PageRecords(p, per_page, JInt(1), JInt(0))]
      [] k = "short" -> [kind |-> "list",
                         records |-> PageRecords(p, 1, JInt(2), JNull)]
      [] k = "empty" -> [kind |-> "list", records |-> <<>>]
      [] k = "malformed" -> [kind |-> "list",
                             records |-> PageRecords(p, 1, JStr("x"), JInt(1))]
      [] OTHER -> [kind |-> k]

RECURSIVE KindLists(_)
KindLists(n) ==
    IF n = 0 THEN {<<>>}
    ELSE LET L == KindLists(n - 1)
         IN  L \cup {Append(l, k) : l \in L, k \in PageKinds}

SampleDocs ==
    { <<>>,
      <<"Hi", NL>>,
      <<"Hi", NL, START, "42", END, NL>>,
      ExampleLine,
      HeadingLine \o <<NL>> }

Files ==
    {[exists |-> FALSE, content |-> <<>>]}
        \cup {[exists |-> TRUE, content |-> d] : d \in SampleDocs}

Init ==
    /\ pc = "start"
    /\ token \in BOOLEAN
    /\ \E u \in {"ok", "unauthorized", "no_login"}, ks \in KindLists(MaxPages) :
           server = [user |-> u,
                     pages |-> [p \in 1..Len(ks) |-> PageBody(p, ks[p])]]
    /\ page = 1
    /\ repos = <<>>
    /\ requests = <<>>
    /\ total = 0
    /\ readme \in Files
    /\ text = <<>>
    /\ method = "none"
    /\ writes = 0
    /\ exit_code = -1
    /\ history = <<>>

Next ==
    \/ CheckToken
    \/ GetAuthenticatedUser
    \/ FetchPage
    \/ CalculateTotalScore
    \/ ReadReadme
    \/ TryPlaceholder
    \/ TryCommonLine
    \/ TryHeading
    \/ AppendToEnd
    \/ Finish

Spec == Init /\ [][Next]_vars

----------------------------------------------------------------------------
(* The script run again and again on one document *)

InitRuns ==
    /\ pc = "start"
    /\ token = TRUE
    /\ \E n \in Totals : server = OneRepo(n)
    /\ page = 1
    /\ repos = <<>>
    /\ requests = <<>>
    /\ total = 0
    /\ \E d \in Docs(MaxRunChunks) \cup ExtraDocs :
           readme = [exists |-> TRUE, content |-> d]
    /\ text = <<>>
    /\ method = "none"
    /\ writes = 0
    /\ exit_code = -1
    /\ history = <<>>

\* The next start of the script, after a run that exited 0: a new process,
\* and an API that may hold another total.
Rerun ==
    /\ pc = "exit"
    /\ exit_code = 0
    /\ Len(history) < MaxRuns
    /\ \E n \in Totals : server' = OneRepo(n)
    /\ pc' = "start"
    /\ page' = 1
    /\ repos' = <<>>
    /\ requests' = <<>>
    /\ total' = 0
    /\ text' = <<>>
    /\ method' = "none"
    /\ writes' = 0
    /\ exit_code' = -1
    /\ UNCHANGED <<token, readme, history>>

NextRuns == Next \/ Rerun

SpecRuns == InitRuns /\ [][NextRuns]_vars

----------------------------------------------------------------------------
(* What the properties speak of *)

\* The text holds a start marker and, later, an end marker.
MarkerMatches(t) ==
    \E i, j \in 1..Len(t) : i < j /\ t[i] = START /\ t[j] = END

\* Some line of the text holds a label with a token behind it.
LineMatches(t) == \E q \in 1..Len(t) : LabelAt(t, q) # 0

\* Some line of the text starts with the heading.
HeadingMatches(t) == \E p \in LineStarts(t) : HeadingAt(t, p) # 0

FirstMatching(t) ==
    IF MarkerMatches(t) THEN "marker"
    ELSE IF LineMatches(t) THEN "line"
    ELSE IF HeadingMatches(t) THEN "heading"
    ELSE "append"

ResultOf(m, t, n) ==
    CASE m = "marker" -> replace_placeholder(t, n).new_text
      [] m = "line" -> replace_common_line(t, n).new_text
      [] m = "heading" -> insert_under_status_heading(t, n).new_text
      [] m = "append" -> append_to_end(t, n).new_text

InChain == pc \in {"update_readme", "try_placeholder", "try_common_line",
                   "try_heading", "append"}

\* START, the decimal total and END, one after the other, from position k.
WrappedAt(t, k, n) ==
    /\ k + 2 <= Len(t)
    /\ t[k] = START
    /\ t[k + 1] = Str(n)
    /\ t[k + 2] = END

Count(u, t) == Cardinality({k \in 1..Len(t) : t[k] = u})

----------------------------------------------------------------------------
(* C1 *)

\* What holds of every state of one run: nothing is written before the
\* return, and at the return one strategy has written, the first that matches.
OneStrategy ==
    /\ InChain => writes = 0 /\ history = <<>> /\ method = "none"
    /\ pc = "returned" =>
          /\ writes = 1
          /\ Len(history) = 1
          /\ history[1].method = method
          /\ history[1].text = text
          /\ method = FirstMatching(text)
          /\ readme.content = ResultOf(method, text, total)
          /\ (method = "append") <=>
                 ~(MarkerMatches(text) \/ LineMatches(text)
                      \/ HeadingMatches(text))

\* C1: one run of update_readme_robust writes the document exactly once, by
\* exactly one strategy, the first in the order marker, line, heading, append
\* whose pattern matches the text as read; append is used if and only if
\* none of the first three patterns matches; and the chain always reaches
\* its return.
C1_OneStrategy == []OneStrategy /\ <>(pc = "returned")

\* A run that used the second strategy on a text the third matches too.
C1_Witness ==
    /\ pc = "returned"
    /\ method = "line"
    /\ HeadingMatches(text)

----------------------------------------------------------------------------
(* C2 *)

\* C2: on a text with a start marker and a later end marker, the written
\* text is the text as read with the units strictly between the first start
\* marker and the first end marker after it replaced by the decimal total;
\* everything up to and including that start marker, and everything from
\* that end marker on, is unit for unit what it was.
C2_MarkerFrame ==
    (pc = "returned" /\ MarkerMatches(text)) =>
        LET i == Min({k \in 1..Len(text) : text[k] = START})
            j == Min({k \in (i + 1)..Len(text) : text[k] = END})
            new == readme.content
        IN  /\ Len(new) = i + 1 + (Len(text) - j + 1)
            /\ \A k \in 1..i : new[k] = text[k]
            /\ new[i + 1] = Str(total)
            /\ \A k \in j..Len(text) : new[k - j + i + 2] = text[k]

\* A text with two marker pairs, old content in the first, and a labeled
\* line and a heading behind them.
C2_Witness ==
    /\ pc = "returned"
    /\ method = "marker"
    /\ Count(START, text) = 2
    /\ Count(END, text) = 2
    /\ LineMatches(text)
    /\ HeadingMatches(text)
    /\ readme.content # text

----------------------------------------------------------------------------
(* C3 *)

ExampleReplaced == [ExampleLine EXCEPT ![16] = "99"]

\* C3: labeled-line replacement puts the total in place of the number that
\* follows the label and keeps the rest of the line: the line
\* "> (glowing star) **Total Stars + Forks:** 42 (updated daily)" with
\* total = 99 becomes
\* "> (glowing star) **Total Stars + Forks:** 99 (updated daily)".
C3_ExampleLine ==
    (pc = "returned" /\ text = ExampleLine /\ total = 99) =>
        /\ method = "line"
        /\ readme.content = ExampleReplaced

----------------------------------------------------------------------------
(* C5 *)

\* The last position of the first heading's line.
HeadingLineEnd(t) ==
    LET p == Min({q \in LineStarts(t) : HeadingAt(t, q) # 0})
        e == HeadingAt(t, p)
    IN  Min({h \in e..Len(t) : h = Len(t) \/ t[h + 1] = NL})

HeadingOnly(t) ==
    ~MarkerMatches(t) /\ ~LineMatches(t) /\ HeadingMatches(t)

\* C5 (as amended): on a text with no marker pair and no labeled line but
\* with the heading, the written text is the text as read with one run of
\* units put in directly behind the first heading's line: a line break, a
\* line that holds the decimal total wrapped in a start and an end marker,
\* and a second line break.  That line is the one that follows the heading,
\* and taking out the whole run (the line and both line breaks) gives back
\* the text as read.
C5_HeadingInsert ==
    (pc = "returned" /\ HeadingOnly(text)) =>
        LET h == HeadingLineEnd(text)
            new == readme.content
            n == Len(new) - Len(text)
        IN  /\ method = "heading"
            /\ n >= 5
            /\ \A k \in 1..h : new[k] = text[k]
            /\ \A k \in (h + 1)..Len(text) : new[k + n] = text[k]
            /\ new[h + 1] = NL
            /\ new[h + n] = NL
            /\ \A k \in (h + 2)..(h + n - 1) : new[k] # NL
            /\ \E k \in (h + 2)..(h + n - 3) : WrappedAt(new, k, total)

\* A heading with text behind it on its line and a line after it.
C5_Witness ==
    /\ pc = "returned"
    /\ method = "heading"
    /\ HeadingOnly(text)
    /\ HeadingLineEnd(text) > Min({q \in LineStarts(text) :
                                      HeadingAt(text, q) # 0}) + 6
    /\ HeadingLineEnd(text) < Len(text)

\* C5 (as claimed): taking out the one line that follows the heading's line,
\* with the line break that ends it, gives back the text as read.
C5_DeleteOneLine ==
    (pc = "returned" /\ HeadingOnly(text)) =>
        LET h == HeadingLineEnd(text)
            new == readme.content
            a == h + 2
            b == Min({k \in a..Len(new) : k = Len(new) \/ new[k] = NL})
        IN  /\ \E k \in a..b : WrappedAt(new, k, total)
            /\ SubSeq(new, 1, a - 1) \o SubSeq(new, b + 1, Len(new)) = text

----------------------------------------------------------------------------
(* C6 *)

\* C6: on a text that none of the marker, labeled-line and heading patterns
\* matches, the written text starts with the text as read, unchanged, and
\* goes on with a block that holds a separator and the decimal total wrapped
\* in a start and an end marker.
C6_AppendFrame ==
    (pc = "returned"
        /\ ~(MarkerMatches(text) \/ LineMatches(text) \/ HeadingMatches(text)))
    =>  LET new == readme.content
        IN  /\ method = "append"
            /\ Len(new) > Len(text)
            /\ SubSeq(new, 1, Len(text)) = text
            /\ \E k \in (Len(text) + 1)..Len(new) : new[k] = "---"
            /\ \E k \in (Len(text) + 1)..Len(new) : WrappedAt(new, k, total)

\* A text with a lone end marker, a label without a token and a heading that
\* does not start its line.
C6_Witness ==
    /\ pc = "returned"
    /\ method = "append"
    /\ Len(text) >= 3
    /\ Count(END, text) + Count(START, text) > 0

----------------------------------------------------------------------------
(* C4 *)

\* C4: marker replacement is idempotent.  When a run on a text with a marker
\* pair is followed by a run with the same total, both runs use the marker
\* strategy and the second writes the very text the first wrote.
C4_MarkerIdempotent ==
    \A k \in 1..(Len(history) - 1) :
        (MarkerMatches(history[k].text)
            /\ history[k + 1].total = history[k].total)
        =>  /\ history[k].method = "marker"
            /\ history[k + 1].method = "marker"
            /\ history[k + 1].text = history[k].result
            /\ history[k + 1].result = history[k].result

\* Two runs with one total on a text whose markers held something else.
C4_Witness ==
    /\ Len(history) = 2
    /\ MarkerMatches(history[1].text)
    /\ history[2].total = history[1].total
    /\ history[1].result # history[1].text
    /\ pc = "exit"

----------------------------------------------------------------------------
(* C7 *)

\* What one field of one record counts for: 0 when absent or null.
Counts(r, key) ==
    IF key \in DOMAIN r /\ r[key][1] = "int" THEN r[key][2] ELSE 0

RECURSIVE ScoreOf(_)
ScoreOf(rs) ==
    IF rs = <<>> THEN 0
    ELSE Counts(Head(rs), "stargazers_count") + Counts(Head(rs), "forks_count")
            + ScoreOf(Tail(rs))

Orders(n) ==
    {f \in [1..n -> 1..n] : \A i, j \in 1..n : f[i] = f[j] => i = j}

Reordered(rs, f) == [i \in 1..Len(rs) |-> rs[f[i]]]

\* Every field of every record is absent, null or a number.
Countable(rs) ==
    \A i \in 1..Len(rs) : \A key \in DOMAIN rs[i] :
        rs[i][key][1] \in {"null", "int"}

\* C7: the total calculate_total_score returns is the sum, over the records,
\* of stargazers_count plus forks_count, an absent or null field counting as
\* 0; it is the same for every order of the records and is not negative; and
\* records whose fields are absent, null or numbers raise no error.
C7_TotalScore ==
    /\ (pc = "update_readme" =>
          /\ total = ScoreOf(repos)
          /\ total >= 0
          /\ \A f \in Orders(Len(repos)) :
                 calculate_total_score(Reordered(repos, f)).total = total)
    /\ (pc # "calculate" /\ Countable(repos) => pc = "update_readme")

\* A total over a record without stars, a record with null forks and a
\* record with both.
C7_Witness ==
    /\ pc = "update_readme"
    /\ total > 2
    /\ \E i, j, k \in 1..Len(repos) :
          /\ "stargazers_count" \notin DOMAIN repos[i]
          /\ "forks_count" \in DOMAIN repos[j] /\ repos[j]["forks_count"] = JNull
          /\ DOMAIN repos[k] = {"stargazers_count", "forks_count"}
          /\ Counts(repos[k], "forks_count") > 0

----------------------------------------------------------------------------
(* C8 *)

IsFull(p) ==
    /\ ServerPage(p).kind = "list"
    /\ Len(ServerPage(p).records) = per_page

\* N: how many full pages the API holds before the first page that is not.
FullPages ==
    Max({n \in 0..Len(server.pages) : \A p \in 1..n : IsFull(p)})

RECURSIVE RecordsUpTo(_)
RecordsUpTo(n) ==
    IF n = 0 THEN <<>> ELSE RecordsUpTo(n - 1) \o ServerPage(n).records

Fetched == pc \notin {"start", "get_user", "fetch"} /\ requests # <<>>

\* C8: fetch_all_repos asks for the pages 1, 2, 3, ... in this order and
\* stops at the first page with fewer than per_page = 100 records: with N full
\* pages before it, it makes exactly N + 1 requests and returns the records of
\* these N + 1 pages, in order.  While it runs it has made at most N requests
\* and can make the next.  A body that is no list ends the process with an
\* error, and nothing of it is counted.
C8_Pagination ==
    /\ \A i \in 1..Len(requests) : requests[i] = i
    /\ pc = "fetch" =>
          /\ Len(requests) <= FullPages
          /\ page = Len(requests) + 1
          /\ repos = RecordsUpTo(Len(requests))
          /\ ENABLED FetchPage
    /\ Fetched =>
          /\ Len(requests) = FullPages + 1
          /\ IF ServerPage(FullPages + 1).kind = "list"
             THEN repos = RecordsUpTo(FullPages + 1)
             ELSE /\ pc = "exit"
                  /\ exit_code = 1
                  /\ repos = RecordsUpTo(FullPages)

\* A full page, then a shorter page that is not empty.
C8_Witness ==
    /\ pc = "calculate"
    /\ FullPages = 1
    /\ Len(requests) = 2
    /\ Len(repos) = per_page + 1

----------------------------------------------------------------------------
(* C9 *)

\* What ends a run in an error.
Fatal ==
    \/ ~token
    \/ server.user # "ok"
    \/ \E i \in 1..Len(requests) : ServerPage(requests[i]).kind # "list"
    \/ ScoreRaises(repos)
    \/ ~readme.exists

\* C9: there is no partial success.  A run that ends in an error exits with a
\* code other than 0 and has not written the document; a missing document is
\* found before any strategy is tried; a run that exits 0 has written the
\* document exactly once, by one strategy; and a run exits 0 only if nothing
\* fatal happened.
C9_NoPartialSuccess ==
    /\ pc # "exit" => exit_code = -1
    /\ pc = "exit" => exit_code \in {0, 1} /\ (exit_code = 0 <=> ~Fatal)
    /\ (pc = "exit" /\ exit_code # 0) =>
          writes = 0 /\ history = <<>> /\ method = "none"
    /\ (pc = "exit" /\ exit_code = 0) =>
          /\ writes = 1
          /\ Len(history) = 1
          /\ method = history[1].method
          /\ method \in {"marker", "line", "heading", "append"}
          /\ readme.content = history[1].result
    /\ ~readme.exists =>
          /\ pc \notin {"try_placeholder", "try_common_line", "try_heading",
                        "append", "returned"}
          /\ writes = 0
          /\ method = "none"

\* A run that fetched everything and then found no document.
C9_Witness ==
    /\ pc = "exit"
    /\ exit_code = 1
    /\ ~readme.exists
    /\ token
    /\ Len(repos) > per_page
    /\ ~ScoreRaises(repos)

----------------------------------------------------------------------------
(* C10 *)

\* C10: over the successful runs on one document, each run reads what the
\* run before it wrote; a run after a heading insertion, an append or a
\* marker replacement uses marker replacement, a run after a labeled-line
\* replacement uses labeled-line replacement; so heading insertion and append
\* happen in the first run or never, and the document never holds more than
\* one start marker more than it held at first.
C10_Stabilises ==
    /\ \A k \in 2..Len(history) :
          /\ history[k].text = history[k - 1].result
          /\ history[k - 1].method \in {"heading", "append", "marker"}
                => history[k].method = "marker"
          /\ history[k - 1].method = "line" => history[k].method = "line"
          /\ history[k].method \notin {"heading", "append"}
    /\ \A k \in 1..Len(history) :
          Count(START, history[k].result) <= Count(START, history[1].text) + 1

\* A heading insertion, then a run with another total.
C10_Witness ==
    /\ Len(history) = 2
    /\ history[1].method = "heading"
    /\ history[2].method = "marker"
    /\ history[2].total # history[1].total
    /\ history[2].result # history[1].result

====
